---- MODULE Spec2Model ----
(***************************************************************************)
(* Model of the Shakespeare word-frequency distributed application:        *)
(*   messages.py     the wire format (serialize / deserialize / parse)     *)
(*   coordinator.py  WorkTracker and the Coordinator's serve loop          *)
(*   volunteer.py    the Volunteer's run loop                              *)
(* A Python str is a sequence of one-character strings, so that            *)
(* startswith, split, readline and int do what the interpreter does.       *)
(***************************************************************************)
EXTENDS Integers, Sequences, FiniteSets, TLC

VARIABLES
    work_tracker,   \* Coordinator.work_tracker: the WorkTracker's fields
    server_socket,  \* Coordinator.server_socket: "unbound", "listening", "closed"
    pc,             \* where the coordinator thread is
    backlog,        \* connections made by clients and not accepted yet
    conn,           \* the connection accepted in the last loop iteration
    output,         \* what the coordinator printed at shutdown (<<>>: nothing)
    accepted,       \* history: path -> the report that moved it to finished
    acked,          \* history: paths named by a report answered with AckW
    buffer,         \* a StringIO: the text not read from it yet
    written,        \* what was written to the StringIO, in order
    decoded,        \* what each Message.deserialize(buffer) call returned
    tracker,        \* a WorkTracker called directly, without a socket
    holding,        \* simulated worker -> the path it was given ("": none)
    returned,       \* the last call made on tracker and what it returned
    volunteer,      \* Volunteer -> where its thread is and what it holds
    inbox           \* Volunteer -> what its connection received

\* the variables of the coordinator, of the codec exercise, of the direct
\* WorkTracker exercise and of the volunteers
coordinatorVars == <<work_tracker, server_socket, pc, backlog, conn, output,
                     accepted, acked>>

codecVars == <<buffer, written, decoded>>

trackerVars == <<tracker, holding, returned>>

volunteerVars == <<volunteer, inbox>>

vars == <<coordinatorVars, codecVars, trackerVars, volunteerVars>>

----------------------------------------------------------------------------
(* Python str primitives *)

\* str.isspace() characters that occur in the model's alphabet
Whitespace == {" ", "\t", "\n", "\r", "\f"}

Digits == <<"0", "1", "2", "3", "4", "5", "6", "7", "8", "9">>

DigitSet == {Digits[i] : i \in 1..10}

DigitValue(c) == (CHOOSE i \in 1..10 : Digits[i] = c) - 1

\* ENDL: Final[str] = "\r\n"
ENDL == <<"\r", "\n">>

\* str.startswith(prefix)
startswith(s, prefix) ==
    /\ Len(s) >= Len(prefix)
    /\ SubSeq(s, 1, Len(prefix)) = prefix

\* number of leading characters of s that are (or, with inside = FALSE, are
\* not) whitespace
Run(s, inside) ==
    CHOOSE n \in 0..Len(s) :
        /\ \A i \in 1..n : (s[i] \in Whitespace) = inside
        /\ n = Len(s) \/ ((s[n + 1] \in Whitespace) # inside)

Drop(s, n) == SubSeq(s, n + 1, Len(s))

\* str.split() with no separator: the maximal runs of non-whitespace
RECURSIVE split(_)
split(s) ==
    LET t == Drop(s, Run(s, TRUE))
        n == Run(t, FALSE)
    IN  IF t = <<>> THEN <<>>
        ELSE <<SubSeq(t, 1, n)>> \o split(Drop(t, n))

\* length of the first line of s, its "\n" included (Len(s) when s has none)
LineLen(s) ==
    IF \E i \in 1..Len(s) : s[i] = "\n"
    THEN CHOOSE i \in 1..Len(s) :
             s[i] = "\n" /\ \A j \in 1..(i - 1) : s[j] # "\n"
    ELSE Len(s)

\* TextIOBase.readline(): the line read, and the stream left after it
readline(stream) ==
    LET n == LineLen(stream)
    IN  [line |-> SubSeq(stream, 1, n), rest |-> Drop(stream, n)]

\* socket.makefile('rw') reads in universal-newlines mode: "\r\n" and a lone
\* "\r" both arrive as "\n" (the "\r" of a "\r\n" is dropped, any other
\* "\r" becomes "\n")
makefile(data) ==
    LET marked == [i \in 1..Len(data) |->
                      IF data[i] # "\r" THEN data[i]
                      ELSE IF i < Len(data) /\ data[i + 1] = "\n" THEN "dropped"
                      ELSE "\n"]
        kept(c) == c # "dropped"
    IN  SelectSeq(marked, kept)

\* the digits-and-underscores part of an int literal: digits, with single
\* underscores only between digits
IsDigitString(s) ==
    /\ s # <<>>
    /\ \A i \in 1..Len(s) : s[i] \in DigitSet \cup {"_"}
    /\ s[1] # "_" /\ s[Len(s)] # "_"
    /\ \A i \in 1..(Len(s) - 1) : ~(s[i] = "_" /\ s[i + 1] = "_")

RECURSIVE DigitsValue(_, _)
DigitsValue(s, acc) ==
    IF s = <<>> THEN acc
    ELSE IF Head(s) = "_" THEN DigitsValue(Tail(s), acc)
    ELSE DigitsValue(Tail(s), 10 * acc + DigitValue(Head(s)))

HasSign(s) == s # <<>> /\ Head(s) \in {"+", "-"}

\* int(s) raises ValueError unless s is an optionally signed decimal literal
int_ok(s) == IsDigitString(IF HasSign(s) THEN Tail(s) ELSE s)

\* int(s) for a token s (no surrounding whitespace is left after split)
int(s) ==
    IF HasSign(s)
    THEN (IF Head(s) = "-" THEN -1 ELSE 1) * DigitsValue(Tail(s), 0)
    ELSE DigitsValue(s, 0)

\* str(n) for an integer n, as the f-strings and the % operator format it
RECURSIVE NatStr(_)
NatStr(n) ==
    IF n < 10 THEN <<Digits[n + 1]>>
    ELSE NatStr(n \div 10) \o <<Digits[(n % 10) + 1]>>

str(n) == IF n < 0 THEN <<"-">> \o NatStr(-n) ELSE NatStr(n)

----------------------------------------------------------------------------
(* Python dict: the items in insertion order, keys unique *)

RECURSIVE dict_has(_, _)
dict_has(d, key) ==
    d # <<>> /\ (Head(d)[1] = key \/ dict_has(Tail(d), key))

\* dict.get(key, default)
RECURSIVE dict_get(_, _, _)
dict_get(d, key, default) ==
    IF d = <<>> THEN default
    ELSE IF Head(d)[1] = key THEN Head(d)[2]
    ELSE dict_get(Tail(d), key, default)

\* d[key] = value: an existing key keeps its position
dict_set(d, key, value) ==
    IF dict_has(d, key)
    THEN [i \in 1..Len(d) |-> IF d[i][1] = key THEN <<key, value>> ELSE d[i]]
    ELSE Append(d, <<key, value>>)

dict_keys(d) == {d[i][1] : i \in 1..Len(d)}

----------------------------------------------------------------------------
(* messages.py *)

PREFIX_GET == <<"G", "E", "T", " ">>
PREFIX_ReqW == <<"R", "e", "q", "W">>
PREFIX_AsgW == <<"A", "s", "g", "W">>
PREFIX_SubW == <<"S", "u", "b", "W">>
PREFIX_AckW == <<"A", "c", "k", "W">>
HTTP_VERSION == <<"H", "T", "T", "P", "/", "1", ".", "1">>
HOST_FIELD == <<"H", "o", "s", "t", ":">>
PATH_FIELD == <<"P", "a", "t", "h", ":">>
WORD_COUNTS_FIELD == <<"W", "o", "r", "d", "-", "C", "o", "u", "n", "t", "s", ":">>

\* a raised ValueError, with the stream as the failed parse left it
ValueError(rest) == [val |-> [type |-> "ValueError"], rest |-> rest]

HTTPGetRequest(host, path) ==
    [type |-> "HTTPGetRequest", host |-> host, path |-> path]

GetWorkRequest == [type |-> "GetWorkRequest"]

GetWorkResponse(host, path) ==
    [type |-> "GetWorkResponse", host |-> host, path |-> path]

WorkCompleteRequest(path, word_counts) ==
    [type |-> "WorkCompleteRequest", path |-> path, word_counts |-> word_counts]

WorkCompleteResponse == [type |-> "WorkCompleteResponse"]

HTTPGetRequest_serialize(self) ==
    PREFIX_GET \o self.path \o <<" ">> \o HTTP_VERSION \o ENDL
    \o HOST_FIELD \o <<" ">> \o self.host \o ENDL
    \o ENDL

HTTPGetRequest_parse(firstline, rest) ==
    IF ~startswith(firstline, PREFIX_GET) THEN ValueError(rest)
    ELSE IF Len(split(firstline)) # 3 THEN ValueError(rest)
    ELSE LET path == split(firstline)[2]
             r    == readline(rest)
             sp   == split(r.line)
         IN  IF Len(sp) # 2 THEN ValueError(r.rest)
             ELSE IF sp[1] # HOST_FIELD THEN ValueError(r.rest)
             ELSE [val |-> HTTPGetRequest(sp[2], path), rest |-> r.rest]

GetWorkRequest_serialize(self) == PREFIX_ReqW \o ENDL \o ENDL

GetWorkRequest_parse(firstline, rest) ==
    IF ~startswith(firstline, PREFIX_ReqW) THEN ValueError(rest)
    ELSE [val |-> GetWorkRequest, rest |-> rest]

GetWorkResponse_serialize(self) ==
    PREFIX_AsgW \o ENDL
    \o HOST_FIELD \o <<" ">> \o self.host \o ENDL
    \o PATH_FIELD \o <<" ">> \o self.path \o ENDL
    \o ENDL

\* the loop turn with the test the other parsers make: a line of exactly two
\* tokens, so that an empty host or path is refused
GetWorkResponse_field_two_tokens(expected_name, rest) ==
    LET r  == readline(rest)
        sp == split(r.line)
    IN  IF Len(sp) # 2 THEN [raised |-> TRUE, rest |-> r.rest]
        ELSE IF sp[1] # expected_name THEN [raised |-> TRUE, rest |-> r.rest]
        ELSE [raised |-> FALSE, rest |-> r.rest, value |-> sp[2]]

\* one turn of the loop over ("Host:", "Path:"): the value read, or "raised"
GetWorkResponse_field(expected_name, rest) ==
    LET r  == readline(rest)
        sp == split(r.line)
    IN  IF sp = <<>> THEN [raised |-> TRUE, rest |-> r.rest]
        ELSE IF sp[1] # expected_name THEN [raised |-> TRUE, rest |-> r.rest]
        ELSE [raised |-> FALSE, rest |-> r.rest,
              value |-> IF Len(sp) > 1 THEN sp[2] ELSE <<>>]

GetWorkResponse_parse(firstline, rest) ==
    IF ~startswith(firstline, PREFIX_AsgW) THEN ValueError(rest)
    ELSE LET h == GetWorkResponse_field(HOST_FIELD, rest)
         IN  IF h.raised THEN ValueError(h.rest)
             ELSE LET p == GetWorkResponse_field(PATH_FIELD, h.rest)
                  IN  IF p.raised THEN ValueError(p.rest)
                      ELSE [val |-> GetWorkResponse(h.value, p.value),
                            rest |-> p.rest]

RECURSIVE word_count_lines(_)
word_count_lines(d) ==
    IF d = <<>> THEN <<>>
    ELSE Head(d)[1] \o <<" ">> \o str(Head(d)[2]) \o ENDL
         \o word_count_lines(Tail(d))

WorkCompleteRequest_serialize(self) ==
    PREFIX_SubW \o ENDL
    \o PATH_FIELD \o <<" ">> \o self.path \o ENDL
    \o WORD_COUNTS_FIELD \o ENDL
    \o word_count_lines(self.word_counts)
    \o ENDL

\* the while loop over the "<word> <count>" lines, up to a line without tokens
RECURSIVE WorkCompleteRequest_counts(_, _)
WorkCompleteRequest_counts(rest, word_counts) ==
    LET r  == readline(rest)
        sp == split(r.line)
    IN  IF Len(sp) = 0
        THEN [raised |-> FALSE, rest |-> r.rest, word_counts |-> word_counts]
        ELSE IF Len(sp) # 2 \/ ~int_ok(sp[2])
        THEN [raised |-> TRUE, rest |-> r.rest, word_counts |-> word_counts]
        ELSE WorkCompleteRequest_counts(
                 r.rest, dict_set(word_counts, sp[1], int(sp[2])))

WorkCompleteRequest_parse(firstline, rest) ==
    IF ~startswith(firstline, PREFIX_SubW) THEN ValueError(rest)
    ELSE LET r1  == readline(rest)
             sp1 == split(r1.line)
         IN  IF Len(sp1) # 2 THEN ValueError(r1.rest)
             ELSE IF sp1[1] # PATH_FIELD THEN ValueError(r1.rest)
             ELSE LET r2  == readline(r1.rest)
                      sp2 == split(r2.line)
                  IN  IF Len(sp2) # 1 THEN ValueError(r2.rest)
                      ELSE IF sp2[1] # WORD_COUNTS_FIELD THEN ValueError(r2.rest)
                      ELSE LET c == WorkCompleteRequest_counts(r2.rest, <<>>)
                           IN  IF c.raised THEN ValueError(c.rest)
                               ELSE [val |-> WorkCompleteRequest(sp1[2], c.word_counts),
                                     rest |-> c.rest]

WorkCompleteResponse_serialize(self) == PREFIX_AckW \o ENDL \o ENDL

WorkCompleteResponse_parse(firstline, rest) ==
    IF ~startswith(firstline, PREFIX_AckW) THEN ValueError(rest)
    ELSE [val |-> WorkCompleteResponse, rest |-> rest]

\* Message.serialize, dispatched on the object's class
serialize(self) ==
    CASE self.type = "HTTPGetRequest" -> HTTPGetRequest_serialize(self)
      [] self.type = "GetWorkRequest" -> GetWorkRequest_serialize(self)
      [] self.type = "GetWorkResponse" -> GetWorkResponse_serialize(self)
      [] self.type = "WorkCompleteRequest" -> WorkCompleteRequest_serialize(self)
      [] self.type = "WorkCompleteResponse" -> WorkCompleteResponse_serialize(self)

\* Message.prefixes(): the serialized prefixes, in the dict's order
prefixes == <<PREFIX_GET, PREFIX_ReqW, PREFIX_AsgW, PREFIX_SubW, PREFIX_AckW>>

\* subclass.parse for the i-th entry of prefixes
subclass_parse(i, firstline, rest) ==
    CASE i = 1 -> HTTPGetRequest_parse(firstline, rest)
      [] i = 2 -> GetWorkRequest_parse(firstline, rest)
      [] i = 3 -> GetWorkResponse_parse(firstline, rest)
      [] i = 4 -> WorkCompleteRequest_parse(firstline, rest)
      [] i = 5 -> WorkCompleteResponse_parse(firstline, rest)

\* Message.deserialize(msg): [val |-> the message or ValueError, rest |-> the
\* stream after the call]
deserialize(msg) ==
    LET r       == readline(msg)
        matches == {i \in 1..Len(prefixes) : startswith(r.line, prefixes[i])}
    IN  IF matches = {} THEN ValueError(r.rest)
        ELSE subclass_parse(CHOOSE i \in matches : \A j \in matches : i <= j,
                            r.line, r.rest)

----------------------------------------------------------------------------
(* coordinator.py: WorkTracker *)

\* how many of the plays of WorkTracker.__init__ the model keeps
NumPlays == 2

\* self.play_ids, in the order __init__ appends them
ALL_PLAY_IDS == <<1513, 27761, 23042, 1533, 1531, 1522, 1526, 1515>>

play_ids == SubSeq(ALL_PLAY_IDS, 1, NumPlays)

\* self.play_download_host
play_download_host == <<"w", "w", "w", ".", "g", "u", "t", "e", "n", "b", "e", "r", "g", ".", "o", "r", "g">>

\* "/cache/epub/%s/pg%s.txt" % (i, i)
play_path(i) ==
    <<"/", "c", "a", "c", "h", "e", "/", "e", "p", "u", "b", "/">> \o str(i) \o <<"/", "p", "g">> \o str(i) \o <<".", "t", "x", "t">>

\* WorkTracker.__init__
WorkTracker ==
    [word_counts     |-> <<>>,
     unstarted_paths |-> {play_path(play_ids[i]) : i \in 1..Len(play_ids)},
     started_paths   |-> {},
     finished_paths  |-> {}]

\* get_path_for_volunteer without self.unstarted_paths.remove(path)
get_path_for_volunteer_without_remove(self) ==
    IF Cardinality(self.unstarted_paths) > 0
    THEN {[path |-> path,
           self |-> [self EXCEPT !.started_paths = @ \cup {path}]]
          : path \in self.unstarted_paths}
    ELSE IF Cardinality(self.started_paths) > 0
    THEN {[path |-> path, self |-> self] : path \in self.started_paths}
    ELSE {[path |-> <<>>, self |-> self]}

\* get_path_for_volunteer without the elif branch that hands out a started path
get_path_for_volunteer_without_hedge(self) ==
    IF Cardinality(self.unstarted_paths) > 0
    THEN {[path |-> path,
           self |-> [self EXCEPT !.unstarted_paths = @ \ {path},
                                 !.started_paths = @ \cup {path}]]
          : path \in self.unstarted_paths}
    ELSE {[path |-> <<>>, self |-> self]}

\* get_path_for_volunteer whose elif branch picks among every path handed out
\* so far, the finished ones included
get_path_for_volunteer_hedging_finished(self) ==
    IF Cardinality(self.unstarted_paths) > 0
    THEN {[path |-> path,
           self |-> [self EXCEPT !.unstarted_paths = @ \ {path},
                                 !.started_paths = @ \cup {path}]]
          : path \in self.unstarted_paths}
    ELSE IF Cardinality(self.started_paths) > 0
    THEN {[path |-> path, self |-> self]
          : path \in self.started_paths \cup self.finished_paths}
    ELSE {[path |-> <<>>, self |-> self]}

\* get_path_for_volunteer whose elif branch takes the path it hands out off
\* started_paths
get_path_for_volunteer_dropping_hedged(self) ==
    IF Cardinality(self.unstarted_paths) > 0
    THEN {[path |-> path,
           self |-> [self EXCEPT !.unstarted_paths = @ \ {path},
                                 !.started_paths = @ \cup {path}]]
          : path \in self.unstarted_paths}
    ELSE IF Cardinality(self.started_paths) > 0
    THEN {[path |-> path,
           self |-> [self EXCEPT !.started_paths = @ \ {path}]]
          : path \in self.started_paths}
    ELSE {[path |-> <<>>, self |-> self]}

\* WorkTracker.get_path_for_volunteer: every [path, self] that random.choice
\* can produce
get_path_for_volunteer(self) ==
    IF Cardinality(self.unstarted_paths) > 0
    THEN {[path |-> path,
           self |-> [self EXCEPT !.unstarted_paths = @ \ {path},
                                 !.started_paths = @ \cup {path}]]
          : path \in self.unstarted_paths}
    ELSE IF Cardinality(self.started_paths) > 0
    THEN {[path |-> path, self |-> self] : path \in self.started_paths}
    ELSE {[path |-> <<>>, self |-> self]}

\* the for loop of process_result over word_counts.items()
RECURSIVE add_word_counts(_, _)
add_word_counts(totals, word_counts) ==
    IF word_counts = <<>> THEN totals
    ELSE LET word  == Head(word_counts)[1]
             count == Head(word_counts)[2]
         IN  add_word_counts(
                 dict_set(totals, word, dict_get(totals, word, 0) + count),
                 Tail(word_counts))

\* process_result without the "if path in self.finished_paths: return" guard
process_result_without_guard(self, path, word_counts) ==
    LET added == [self EXCEPT
                     !.word_counts = add_word_counts(@, word_counts)]
    IN  IF path \notin self.started_paths
        THEN [raised |-> TRUE, self |-> added]
        ELSE [raised |-> FALSE,
              self |-> [added EXCEPT !.started_paths = @ \ {path},
                                     !.finished_paths = @ \cup {path}]]

\* process_result whose guard also returns for a path that is only started:
\* the report of an assigned path is dropped
process_result_dropping_started(self, path, word_counts) ==
    IF path \in self.finished_paths \cup self.started_paths
    THEN [raised |-> FALSE, self |-> self]
    ELSE [raised |-> TRUE,
          self |-> [self EXCEPT !.word_counts = add_word_counts(@, word_counts)]]

\* process_result that puts the reported path back into unstarted_paths
\* instead of finished_paths
process_result_unstarting(self, path, word_counts) ==
    IF path \in self.finished_paths
    THEN [raised |-> FALSE, self |-> self]
    ELSE LET added == [self EXCEPT
                          !.word_counts = add_word_counts(@, word_counts)]
         IN  IF path \notin self.started_paths
             THEN [raised |-> TRUE, self |-> added]
             ELSE [raised |-> FALSE,
                   self |-> [added EXCEPT !.started_paths = @ \ {path},
                                          !.unstarted_paths = @ \cup {path}]]

\* process_result without the two lines that move the path from
\* started_paths to finished_paths
process_result_keeping_started(self, path, word_counts) ==
    IF path \in self.finished_paths
    THEN [raised |-> FALSE, self |-> self]
    ELSE LET added == [self EXCEPT
                          !.word_counts = add_word_counts(@, word_counts)]
         IN  IF path \notin self.started_paths
             THEN [raised |-> TRUE, self |-> added]
             ELSE [raised |-> FALSE, self |-> added]

\* WorkTracker.process_result: the tracker after the call, and whether
\* set.remove raised KeyError (the counts are added before it does)
process_result(self, path, word_counts) ==
    IF path \in self.finished_paths
    THEN [raised |-> FALSE, self |-> self]
    ELSE LET added == [self EXCEPT
                          !.word_counts = add_word_counts(@, word_counts)]
         IN  IF path \notin self.started_paths
             THEN [raised |-> TRUE, self |-> added]
             ELSE [raised |-> FALSE,
                   self |-> [added EXCEPT !.started_paths = @ \ {path},
                                          !.finished_paths = @ \cup {path}]]

\* WorkTracker.is_all_work_done
is_all_work_done(self) == Cardinality(self.finished_paths) = Len(play_ids)

\* a sort that is not stable: an item goes before the items of equal count
RECURSIVE insert_desc_before_ties(_, _)
insert_desc_before_ties(sorted, item) ==
    IF sorted = <<>> THEN <<item>>
    ELSE IF Head(sorted)[2] > item[2]
    THEN <<Head(sorted)>> \o insert_desc_before_ties(Tail(sorted), item)
    ELSE <<item>> \o sorted

\* sorted(items, key=lambda item: item[1], reverse=True): a stable sort, so
\* an item goes after every item whose count is not smaller
RECURSIVE insert_desc(_, _)
insert_desc(sorted, item) ==
    IF sorted = <<>> THEN <<item>>
    ELSE IF Head(sorted)[2] >= item[2]
    THEN <<Head(sorted)>> \o insert_desc(Tail(sorted), item)
    ELSE <<item>> \o sorted

RECURSIVE sorted_desc(_, _)
sorted_desc(items, acc) ==
    IF items = <<>> THEN acc
    ELSE sorted_desc(Tail(items), insert_desc(acc, Head(items)))

\* WorkTracker.get_word_counts_desc
get_word_counts_desc(self) == sorted_desc(self.word_counts, <<>>)

----------------------------------------------------------------------------
(* what clients put on a connection *)

\* how many connections may wait in the listen queue (the code asks for 10)
MaxBacklog == 1

hello == <<"h", "e", "l", "l", "o">>
world == <<"w", "o", "r", "l", "d">>

\* the word counts clients report: the ones of coordinator_test.py, and a
\* count below zero, which int() parses
ReportCounts == {<<<<hello, 10>>, <<world, 20>>>>, <<<<world, -1>>>>}

\* a path that no WorkTracker hands out
ForeignPath == <<"/", "r", "o", "b", "o", "t", "s", ".", "t", "x", "t">>

ReportPaths == WorkTracker.unstarted_paths \cup {ForeignPath}

\* "bogus msg", the invalid message of messages_test.py
BogusMsg == <<"b", "o", "g", "u", "s", " ", "m", "s", "g">>

\* a report whose count is not a number
BadCountMsg ==
    PREFIX_SubW \o ENDL \o PATH_FIELD \o <<" ">> \o ForeignPath \o ENDL
    \o WORD_COUNTS_FIELD \o ENDL \o hello \o <<" ">> \o <<"x">> \o ENDL \o ENDL

\* The bytes a client sends before it shuts its sending side: any serialized
\* message, well-formed or not.  Clients are not trusted to follow the
\* Volunteer's loop.
ClientData ==
    {serialize(GetWorkRequest)}
    \cup {serialize(WorkCompleteRequest(path, counts)) :
              path \in ReportPaths, counts \in ReportCounts}
    \cup {serialize(WorkCompleteResponse),
          serialize(GetWorkResponse(<<>>, <<>>)),
          BogusMsg, BadCountMsg, <<>>}

----------------------------------------------------------------------------
(* The processes around the coordinator *)

\* Python's None: what connect, get_work and report_work return on a refused
\* connection, and the model's mark for "nothing yet"
None == [type |-> "None"]

\* number of Volunteers running (volunteer.py's __main__ runs one per
\* process, volunteer_test.py starts two threads)
NumVolunteers == 1

Volunteers == 1..NumVolunteers

\* number of simulated workers calling a WorkTracker directly
NumWorkers == 2

Workers == 1..NumWorkers

\* the last call made on a tracker and the value it returned (<<>>: None)
Returned(call, value) == [call |-> call, value |-> value]

\* number of messages written to one StringIO
MaxMessages == 2

----------------------------------------------------------------------------
(* coordinator.py: Coordinator *)

\* Coordinator.__init__: the tracker is built, the socket is not bound yet
Init ==
    /\ work_tracker = WorkTracker
    /\ server_socket = "unbound"
    /\ pc = "constructed"
    /\ backlog = <<>>
    /\ conn = [data |-> <<>>, response |-> <<>>, closed |-> FALSE]
    /\ output = <<>>
    /\ accepted = <<>>
    /\ acked = {}
    /\ buffer = <<>>
    /\ written = <<>>
    /\ decoded = <<>>
    /\ tracker = WorkTracker
    /\ holding = [w \in Workers |-> <<>>]
    /\ returned = Returned("__init__", <<>>)
    /\ volunteer = [v \in Volunteers |-> [pc |-> "constructed", work |-> None,
                                           result |-> <<>>, reported |-> {}]]
    /\ inbox = [v \in Volunteers |-> None]

\* Coordinator.start: bind, listen, settimeout(.5); the thread then enters
\* accept_connections_until_all_work_done
start ==
    /\ pc = "constructed"
    /\ server_socket' = "listening"
    /\ pc' = "Listening"
    /\ UNCHANGED <<work_tracker, backlog, conn, output, accepted, acked>>
    /\ UNCHANGED <<codecVars, trackerVars, volunteerVars>>

\* a client's connect() and send(): the connection waits to be accepted
Connect ==
    /\ server_socket = "listening"
    /\ Len(backlog) < MaxBacklog
    /\ \E data \in ClientData : backlog' = Append(backlog, [data |-> data])
    /\ UNCHANGED <<work_tracker, server_socket, pc, conn, output, accepted, acked>>
    /\ UNCHANGED <<codecVars, trackerVars, volunteerVars>>

\* dispatch without the is_all_work_done() test: a WorkRequest always gets
\* the host and whatever get_path_for_volunteer returns
dispatch_without_done_test(self, request) ==
    IF request.type = "GetWorkRequest"
    THEN {[self |-> o.self, raised |-> FALSE, closed |-> TRUE,
           response |-> serialize(GetWorkResponse(play_download_host, o.path))]
          : o \in get_path_for_volunteer(self)}
    ELSE IF request.type = "WorkCompleteRequest"
    THEN LET r == process_result(self, request.path, request.word_counts)
         IN  IF r.raised
             THEN {[self |-> r.self, raised |-> TRUE, closed |-> FALSE,
                    response |-> <<>>]}
             ELSE {[self |-> r.self, raised |-> FALSE, closed |-> TRUE,
                    response |-> serialize(WorkCompleteResponse)]}
    ELSE {[self |-> self, raised |-> FALSE, closed |-> FALSE, response |-> <<>>]}

\* The body of the with statement for a deserialized request: every outcome
\*   self      the tracker afterwards
\*   response  what file.write was given (<<>>: nothing was written)
\*   raised    an exception left the loop (KeyError of process_result)
\*   closed    connection_socket.close() was reached
dispatch(self, request) ==
    IF request.type = "GetWorkRequest"
    THEN IF is_all_work_done(self)
         THEN {[self |-> self, raised |-> FALSE, closed |-> TRUE,
                response |-> serialize(GetWorkResponse(<<>>, <<>>))]}
         ELSE {[self |-> o.self, raised |-> FALSE, closed |-> TRUE,
                response |-> serialize(GetWorkResponse(play_download_host, o.path))]
               : o \in get_path_for_volunteer(self)}
    ELSE IF request.type = "WorkCompleteRequest"
    THEN LET r == process_result(self, request.path, request.word_counts)
         IN  IF r.raised
             THEN {[self |-> r.self, raised |-> TRUE, closed |-> FALSE,
                    response |-> <<>>]}
             ELSE {[self |-> r.self, raised |-> FALSE, closed |-> TRUE,
                    response |-> serialize(WorkCompleteResponse)]}
    ELSE \* continue: the with block closes the file, close() is skipped
         {[self |-> self, raised |-> FALSE, closed |-> FALSE, response |-> <<>>]}

\* One iteration of the while loop whose accept() returns a connection:
\* deserialize the request, dispatch it, write the response, close.  Only
\* TimeoutError is caught, so the ValueError of deserialize and the KeyError
\* of process_result leave the method without closing anything.
serve(self, data) ==
    LET request == deserialize(makefile(data)).val
    IN  IF request.type = "ValueError"
        THEN {[self |-> self, raised |-> TRUE, closed |-> FALSE,
               response |-> <<>>]}
        ELSE dispatch(self, request)

Serve ==
    /\ pc = "Listening"
    /\ backlog # <<>>
    /\ LET data    == Head(backlog).data
           request == deserialize(makefile(data)).val
       IN  \E o \in serve(work_tracker, data) :
               /\ work_tracker' = o.self
               /\ conn' = [data |-> data, response |-> o.response,
                           closed |-> o.closed]
               /\ pc' = IF o.raised THEN "Raised" ELSE "Listening"
               /\ acked' =
                      IF request.type = "WorkCompleteRequest" /\ o.response # <<>>
                      THEN acked \cup {request.path}
                      ELSE acked
               /\ accepted' =
                      IF /\ request.type = "WorkCompleteRequest"
                         /\ request.path \notin work_tracker.finished_paths
                         /\ request.path \in o.self.finished_paths
                      THEN [q \in DOMAIN accepted \cup {request.path} |->
                               IF q = request.path THEN request.word_counts
                               ELSE accepted[q]]
                      ELSE accepted
               \* what the client reads from its socket up to end of file
               /\ inbox' =
                      IF "client" \in DOMAIN Head(backlog)
                      THEN [inbox EXCEPT ![Head(backlog).client] =
                                             [data |-> o.response]]
                      ELSE inbox
    /\ backlog' = Tail(backlog)
    /\ UNCHANGED <<server_socket, output>>
    /\ UNCHANGED <<codecVars, trackerVars, volunteer>>

\* accept() raises TimeoutError when no connection arrived in the half
\* second: the loop ends, the socket is closed, the word counts are printed
AcceptTimeout ==
    /\ pc = "Listening"
    /\ backlog = <<>>
    /\ server_socket' = "closed"
    /\ output' = <<get_word_counts_desc(work_tracker)>>
    /\ pc' = "Stopped"
    /\ UNCHANGED <<work_tracker, backlog, conn, accepted, acked>>
    /\ UNCHANGED <<codecVars, trackerVars, volunteerVars>>

Next == start \/ Connect \/ Serve \/ AcceptTimeout

Spec == Init /\ [][Next]_vars

----------------------------------------------------------------------------
(* Vocabulary of the properties *)

\* the job universe: the paths the tracker is constructed with
JobUniverse == {play_path(ALL_PLAY_IDS[i]) : i \in 1..NumPlays}

\* the request that Message.deserialize reads from a connection's bytes
RequestOf(data) == deserialize(makefile(data)).val

\* this step is a loop iteration that accepted the oldest waiting connection
Handled == pc = "Listening" /\ Len(backlog') < Len(backlog)

\* the request handled by such a step
HandledRequest == RequestOf(Head(backlog).data)

\* the message a worker reads from the bytes written on a connection
ResponseOf(bytes) == deserialize(makefile(bytes)).val

\* the sum of f over the finite set S
RECURSIVE SumOver(_, _)
SumOver(S, f) ==
    IF S = {} THEN 0
    ELSE LET x == CHOOSE y \in S : TRUE
         IN  f[x] + SumOver(S \ {x}, f)

\* "AsgW\r\nHost: \r\nPath: \r\n\r\n"
NoWorkLeftWire == <<"A", "s", "g", "W", "\r", "\n", "H", "o", "s", "t", ":", " ", "\r", "\n", "P", "a", "t", "h", ":", " ", "\r", "\n", "\r", "\n">>

\* "AckW\r\n\r\n"
AckWire == <<"A", "c", "k", "W", "\r", "\n", "\r", "\n">>

----------------------------------------------------------------------------
(* Properties *)

\* C1: unstarted, started and finished are pairwise disjoint, their union is
\* the job universe fixed at construction, and their sizes add up to its size.
C1_TrackerPartition ==
    LET u == work_tracker.unstarted_paths
        s == work_tracker.started_paths
        f == work_tracker.finished_paths
    IN  /\ u \cap s = {} /\ u \cap f = {} /\ s \cap f = {}
        /\ u \cup s \cup f = JobUniverse
        /\ Cardinality(u) + Cardinality(s) + Cardinality(f)
               = Cardinality(JobUniverse)

\* C1 happens: assign and aggregate have both acted
C1_Witness ==
    /\ work_tracker.started_paths # {}
    /\ work_tracker.finished_paths # {}

\* C2: the accumulator's value for each word is the sum, over the finished
\* paths, of that word's count in the report accepted for the path; it has no
\* other words.
C2_ExactlyOnceAggregation ==
    /\ DOMAIN accepted = work_tracker.finished_paths
    /\ \A word \in dict_keys(work_tracker.word_counts)
                     \cup UNION {dict_keys(accepted[p]) : p \in DOMAIN accepted} :
           dict_get(work_tracker.word_counts, word, 0)
               = SumOver(DOMAIN accepted,
                         [p \in DOMAIN accepted |-> dict_get(accepted[p], word, 0)])

\* C3: the serve loop has stopped, closed the listening socket or printed the
\* final snapshot only when all work is done.
C3_StopsOnlyWhenComplete ==
    (pc = "Stopped" \/ server_socket = "closed" \/ output # <<>>)
        => is_all_work_done(work_tracker)

\* C4: a connection whose bytes fail to decode gets no response, leaves the
\* tracker unchanged and leaves the coordinator listening.
C4_DecodeFailureKeepsServing ==
    [][(Handled /\ HandledRequest.type = "ValueError")
           => /\ conn'.response = <<>>
              /\ work_tracker' = work_tracker
              /\ pc' = "Listening"
              /\ server_socket' = "listening"]_vars

\* C5: a report for a path that is already finished changes neither the
\* accumulator nor any of the three sets, whatever counts it carries.
C5_DuplicateReportIsNoOp ==
    [][(/\ Handled
        /\ HandledRequest.type = "WorkCompleteRequest"
        /\ HandledRequest.path \in work_tracker.finished_paths)
           => work_tracker' = work_tracker]_vars

\* C5 happens: the last connection reported a finished path with counts other
\* than the ones accepted for it, and was acknowledged
C5_Witness ==
    /\ RequestOf(conn.data).type = "WorkCompleteRequest"
    /\ conn.response = AckWire
    /\ RequestOf(conn.data).path \in DOMAIN accepted
    /\ accepted[RequestOf(conn.data).path] # RequestOf(conn.data).word_counts

\* C6: whenever the coordinator hands a report's path to process_result, the
\* path is in started or in finished.
C6_ReportedPathWasAssigned ==
    [][(Handled /\ HandledRequest.type = "WorkCompleteRequest")
           => HandledRequest.path \in work_tracker.started_paths
                                       \cup work_tracker.finished_paths]_vars

\* C7: a WorkRequest handled while the work is not all done is answered with
\* a WorkAssignment carrying the download host and a non-empty path of the
\* job universe.
C7_WorkAssignedWhileIncomplete ==
    [][(/\ Handled
        /\ HandledRequest.type = "GetWorkRequest"
        /\ ~is_all_work_done(work_tracker))
           => LET resp == ResponseOf(conn'.response)
              IN  /\ resp.type = "GetWorkResponse"
                  /\ resp.host = play_download_host
                  /\ resp.path # <<>>
                  /\ resp.path \in JobUniverse]_vars

\* C7 happens: a WorkRequest was answered with a path while nothing was
\* unstarted any more
C7_Witness ==
    /\ RequestOf(conn.data).type = "GetWorkRequest"
    /\ ResponseOf(conn.response).type = "GetWorkResponse"
    /\ ResponseOf(conn.response).path \in work_tracker.started_paths
    /\ work_tracker.unstarted_paths = {}
    /\ work_tracker.finished_paths # {}

\* C8: a WorkAssignment never carries a path whose report was acknowledged,
\* nor any path in finished.
C8_NoAssignmentAfterAck ==
    [][(Handled /\ ResponseOf(conn'.response).type = "GetWorkResponse")
           => /\ ResponseOf(conn'.response).path \notin acked
              /\ ResponseOf(conn'.response).path \notin work_tracker'.finished_paths]_vars

\* C8 happens: after a report was acknowledged, a WorkRequest was answered
\* with a path
C8_Witness ==
    /\ acked # {}
    /\ RequestOf(conn.data).type = "GetWorkRequest"
    /\ ResponseOf(conn.response).type = "GetWorkResponse"
    /\ ResponseOf(conn.response).path \in JobUniverse

\* C9: when all work is done, a WorkRequest is answered with exactly
\* "AsgW\r\nHost: \r\nPath: \r\n\r\n" and the tracker is left unchanged.
C9_NoWorkLeftResponse ==
    [][(/\ Handled
        /\ HandledRequest.type = "GetWorkRequest"
        /\ is_all_work_done(work_tracker))
           => /\ conn'.response = NoWorkLeftWire
              /\ work_tracker' = work_tracker]_vars

\* C9 happens: all work is done and the last WorkRequest got the empty
\* assignment
C9_Witness ==
    /\ work_tracker.finished_paths = JobUniverse
    /\ RequestOf(conn.data).type = "GetWorkRequest"
    /\ conn.response = NoWorkLeftWire

\* C10: a connection whose request decodes to a WorkRequest gets exactly a
\* WorkAssignment, one whose request decodes to a ResultReport exactly a
\* ResultAck.
C10_OneMatchingResponse ==
    [][Handled =>
           /\ HandledRequest.type = "GetWorkRequest"
                  => /\ ResponseOf(conn'.response).type = "GetWorkResponse"
                     /\ conn'.response
                            = serialize(ResponseOf(conn'.response))
           /\ HandledRequest.type = "WorkCompleteRequest"
                  => conn'.response = AckWire]_vars

----------------------------------------------------------------------------
(* messages_test.py: serialize and Message.deserialize on a StringIO *)

some_host == <<"s", "o", "m", "e", "-", "h", "o", "s", "t">>
some_path == <<"s", "o", "m", "e", "-", "p", "a", "t", "h">>
path_to_play == <<"p", "a", "t", "h", "-", "t", "o", "-", "p", "l", "a", "y">>
romeo == <<"r", "o", "m", "e", "o">>
juliet == <<"j", "u", "l", "i", "e", "t">>
rose == <<"r", "o", "s", "e">>

\* hosts and paths a message is constructed with: the empty string, the
\* values of messages_test.py, and text with whitespace inside
Hosts == {<<>>, some_host, <<"s", "o", "m", "e", " ", "h", "o", "s", "t">>}

Paths == {<<>>, some_path, <<"s", "o", "m", "e", " ", "p", "a", "t", "h">>}

\* word counts a WorkCompleteRequest is constructed with
WordCounts ==
    {<<>>,
     <<<<romeo, 16>>, <<juliet, 18>>, <<rose, 7>>>>,
     <<<<hello, 10>>, <<world, 20>>>>}

\* the constructible messages of the five classes
Messages ==
    {HTTPGetRequest(h, p) : h \in Hosts, p \in Paths}
    \cup {GetWorkRequest}
    \cup {GetWorkResponse(h, p) : h \in Hosts, p \in Paths}
    \cup {WorkCompleteRequest(p, wc) : p \in Paths, wc \in WordCounts}
    \cup {WorkCompleteResponse}

\* text that is not the serialization of any message: no registered prefix,
\* a missing field line, a field line with too few or too many tokens, an
\* unexpected label, a count that is not a number
MalformedTexts ==
    {BogusMsg,
     BadCountMsg,
     <<"G", "E", "T", " ", "s", "o", "m", "e", "-", "p", "a", "t", "h",
        " ", "H", "T", "T", "P", "/", "1", ".", "1", "\r", "\n", "\r",
        "\n">>,
     <<"G", "E", "T", " ", "s", "o", "m", "e", "-", "p", "a", "t", "h",
        " ", "H", "T", "T", "P", "/", "1", ".", "1", "\r", "\n", "P",
        "a", "t", "h", ":", " ", "s", "o", "m", "e", "-", "h", "o", "s",
        "t", "\r", "\n", "\r", "\n">>,
     <<"G", "E", "T", " ", "s", "o", "m", "e", "-", "p", "a", "t", "h",
        " ", "H", "T", "T", "P", "/", "1", ".", "1", "\r", "\n", "H",
        "o", "s", "t", ":", " ", "s", "o", "m", "e", "-", "h", "o", "s",
        "t", " ", "8", "0", "\r", "\n", "\r", "\n">>,
     <<"A", "s", "g", "W", "\r", "\n", "P", "a", "t", "h", ":", " ",
        "s", "o", "m", "e", "-", "p", "a", "t", "h", "\r", "\n", "\r",
        "\n">>,
     <<"A", "s", "g", "W", "\r", "\n", "H", "o", "s", "t", ":", " ",
        "s", "o", "m", "e", "-", "h", "o", "s", "t", "\r", "\n", "\r",
        "\n">>,
     <<"A", "s", "g", "W", "\r", "\n", "H", "o", "s", "t", ":", " ",
        "s", "o", "m", "e", "-", "h", "o", "s", "t", " ", "8", "0", " ",
        "x", "\r", "\n", "P", "a", "t", "h", ":", " ", "s", "o", "m",
        "e", "-", "p", "a", "t", "h", "\r", "\n", "\r", "\n">>,
     <<"A", "s", "g", "W", "\r", "\n", "H", "o", "s", "t", ":", " ",
        "s", "o", "m", "e", "-", "h", "o", "s", "t", "\r", "\n", "P",
        "a", "t", "h", ":", " ", "s", "o", "m", "e", "-", "p", "a", "t",
        "h", " ", "1", " ", "2", "\r", "\n", "\r", "\n">>,
     <<"S", "u", "b", "W", "\r", "\n", "W", "o", "r", "d", "-", "C",
        "o", "u", "n", "t", "s", ":", "\r", "\n", "r", "o", "m", "e",
        "o", " ", "1", "6", "\r", "\n", "\r", "\n">>,
     <<"S", "u", "b", "W", "\r", "\n", "P", "a", "t", "h", ":", " ",
        "p", "a", "t", "h", "-", "t", "o", "-", "p", "l", "a", "y", "\r",
        "\n", "r", "o", "m", "e", "o", " ", "1", "6", "\r", "\n", "\r",
        "\n">>,
     <<"S", "u", "b", "W", "\r", "\n", "P", "a", "t", "h", ":", " ",
        "p", "a", "t", "h", "-", "t", "o", "-", "p", "l", "a", "y", "\r",
        "\n", "W", "o", "r", "d", "-", "C", "o", "u", "n", "t", "s", ":",
        "\r", "\n", "r", "o", "m", "e", "o", " ", "1", "6", " ", "1",
        "8", "\r", "\n", "\r", "\n">>}

\* a str written where a message was expected
Text(t) == [type |-> "str", text |-> t]

\* StringIO(message.serialize()), or a further write(message.serialize())
WriteMessage ==
    /\ decoded = <<>>
    /\ Len(written) < MaxMessages
    /\ \A i \in 1..Len(written) : written[i].type # "str"
    /\ \E m \in Messages :
           /\ buffer' = buffer \o serialize(m)
           /\ written' = Append(written, m)
    /\ UNCHANGED <<decoded, coordinatorVars, trackerVars, volunteerVars>>

\* StringIO(text) for a text that no serialize produced
WriteText ==
    /\ decoded = <<>>
    /\ written = <<>>
    /\ \E t \in MalformedTexts :
           /\ buffer' = t
           /\ written' = <<Text(t)>>
    /\ UNCHANGED <<decoded, coordinatorVars, trackerVars, volunteerVars>>

\* Message.deserialize(buffer): the value returned (or the ValueError raised)
\* is recorded, the StringIO keeps the position the call left it at
Deserialize ==
    /\ written # <<>>
    /\ Len(decoded) < Len(written)
    /\ LET r == deserialize(buffer)
       IN  /\ decoded' = Append(decoded, r.val)
           /\ buffer' = r.rest
    /\ UNCHANGED <<written, coordinatorVars, trackerVars, volunteerVars>>

CodecNext == WriteMessage \/ WriteText \/ Deserialize

CodecSpec == Init /\ [][CodecNext]_vars

----------------------------------------------------------------------------
(* Properties of the codec, checked under CodecSpec *)

\* what str.split() returns as one token: not empty, no whitespace inside
IsToken(s) == s # <<>> /\ \A i \in 1..Len(s) : s[i] \notin Whitespace

\* message objects of the same class with equal fields; two dicts are equal
\* when they map the same words to the same counts, in any order
SameMessage(a, b) ==
    /\ a.type = b.type
    /\ a.type \in {"HTTPGetRequest", "GetWorkResponse"}
           => a.host = b.host /\ a.path = b.path
    /\ a.type = "WorkCompleteRequest"
           => /\ a.path = b.path
              /\ dict_keys(a.word_counts) = dict_keys(b.word_counts)
              /\ \A k \in dict_keys(a.word_counts) :
                     dict_get(a.word_counts, k, None)
                         = dict_get(b.word_counts, k, None)

\* the messages whose fields the wire format can carry: every host, path and
\* word is one token, but for the host and path of a GetWorkResponse, which
\* may also be empty
TokenFields(m) ==
    CASE m.type = "HTTPGetRequest" -> IsToken(m.host) /\ IsToken(m.path)
      [] m.type = "GetWorkResponse" ->
             /\ m.host = <<>> \/ IsToken(m.host)
             /\ m.path = <<>> \/ IsToken(m.path)
      [] m.type = "WorkCompleteRequest" ->
             /\ IsToken(m.path)
             /\ \A k \in dict_keys(m.word_counts) : IsToken(k)
      [] OTHER -> TRUE

\* the first thing written was a message, and deserialize has been called
FirstDecoded == written # <<>> /\ written[1].type # "str" /\ decoded # <<>>

C14_MalformedTextIsRefused ==
    (written # <<>> /\ written[1].type = "str" /\ decoded # <<>>)
        => decoded[1].type = "ValueError"

\* C15: deserialize reads exactly one message: after the first of two
\* serialized messages is read the StringIO stands at the start of the
\* second one, and a second deserialize returns the second message.
C15_DecodeConsumesOneMessage ==
    (/\ Len(written) = 2
     /\ TokenFields(written[1]) /\ TokenFields(written[2])
     /\ decoded # <<>>)
        => /\ Len(decoded) = 1 => buffer = serialize(written[2])
           /\ Len(decoded) = 2 => SameMessage(decoded[2], written[2])

----------------------------------------------------------------------------
(* coordinator.py: a WorkTracker called directly by simulated workers *)

\* the word counts the simulated workers report: the ones of
\* coordinator_test.py, none at all, and counts that make two words tie
WorkerCounts ==
    {<<<<hello, 10>>, <<world, 20>>>>,
     <<>>,
     <<<<world, 10>>, <<hello, 20>>>>}

\* worker w calls tracker.get_path_for_volunteer() and keeps the path
Assign(w) ==
    /\ holding[w] = <<>>
    /\ \E o \in get_path_for_volunteer(tracker) :
           /\ tracker' = o.self
           /\ holding' = [holding EXCEPT ![w] = o.path]
           /\ returned' = Returned("get_path_for_volunteer", o.path)
    /\ UNCHANGED <<coordinatorVars, codecVars, volunteerVars>>

\* worker w calls tracker.process_result(path, word_counts) for its path
Aggregate(w) ==
    /\ holding[w] # <<>>
    /\ \E word_counts \in WorkerCounts :
           LET r == process_result(tracker, holding[w], word_counts)
           IN  /\ tracker' = r.self
               /\ returned' = Returned("process_result",
                                       IF r.raised THEN <<"KeyError">> ELSE <<>>)
    /\ holding' = [holding EXCEPT ![w] = <<>>]
    /\ UNCHANGED <<coordinatorVars, codecVars, volunteerVars>>

\* tracker.get_word_counts_desc(), at any time
Snapshot ==
    /\ returned' = Returned("get_word_counts_desc", get_word_counts_desc(tracker))
    /\ UNCHANGED <<tracker, holding, coordinatorVars, codecVars, volunteerVars>>

TrackerNext ==
    \/ \E w \in Workers : Assign(w)
    \/ \E w \in Workers : Aggregate(w)
    \/ Snapshot

TrackerSpec == Init /\ [][TrackerNext]_vars

\* every worker keeps asking, and reports every path it was given
TrackerFairSpec ==
    /\ TrackerSpec
    /\ \A w \in Workers : WF_vars(Assign(w)) /\ WF_vars(Aggregate(w))

----------------------------------------------------------------------------
(* Properties of the WorkTracker, checked under TrackerSpec *)

\* the step is a call of get_path_for_volunteer
AssignStep == returned'.call = "get_path_for_volunteer"

\* the position of an item in a dict
IndexOf(d, item) == CHOOSE k \in 1..Len(d) : d[k] = item

\* snap holds exactly the items of word_counts, the counts never increase
\* along it, and items of equal count keep the order they have in word_counts
IsSnapshotOf(snap, word_counts) ==
    /\ Len(snap) = Len(word_counts)
    /\ {snap[i] : i \in 1..Len(snap)}
           = {word_counts[i] : i \in 1..Len(word_counts)}
    /\ \A i, j \in 1..Len(snap) :
           i < j => /\ snap[i][2] >= snap[j][2]
                    /\ snap[i][2] = snap[j][2]
                           => IndexOf(word_counts, snap[i])
                                  < IndexOf(word_counts, snap[j])

\* C12: workers that keep calling get_path_for_volunteer and report every
\* path they were given bring the tracker to is_all_work_done() in finitely
\* many steps, and no call made while a path is unstarted or started returns
\* the empty string.
C12_CompletionConvergence ==
    /\ <>is_all_work_done(tracker)
    /\ [][(AssignStep /\ tracker.unstarted_paths \cup tracker.started_paths # {})
              => returned'.value # <<>>]_vars

\* C12 happens: the last report made all work done
C12_Witness ==
    /\ is_all_work_done(tracker)
    /\ returned.call = "process_result"
    /\ tracker.finished_paths = JobUniverse

\* C18: get_word_counts_desc returns exactly the items of word_counts, by
\* non-increasing count, ties in insertion order, and changes nothing in the
\* tracker.
C18_SnapshotSortedReadOnly ==
    [][returned'.call = "get_word_counts_desc"
          => /\ tracker' = tracker
             /\ IsSnapshotOf(returned'.value, tracker.word_counts)]_vars

\* C18 happens: all work is done with {hello: 10, world: 20} accumulated, and
\* the snapshot lists world: 20 before hello: 10
C18_Witness ==
    /\ is_all_work_done(tracker)
    /\ tracker.word_counts = <<<<hello, 10>>, <<world, 20>>>>
    /\ returned = Returned("get_word_counts_desc",
                           <<<<world, 20>>, <<hello, 10>>>>)

\* C20: get_path_for_volunteer returns an unstarted path and only moves it to
\* started_paths; with nothing unstarted it returns a started path and
\* changes nothing; with nothing unstarted or started it returns "" and
\* changes nothing.
C20_AssignFrame ==
    [][AssignStep =>
          LET path == returned'.value
          IN  /\ tracker.unstarted_paths # {}
                     => /\ path \in tracker.unstarted_paths
                        /\ tracker' = [tracker EXCEPT
                                          !.unstarted_paths = @ \ {path},
                                          !.started_paths = @ \cup {path}]
              /\ (tracker.unstarted_paths = {} /\ tracker.started_paths # {})
                     => /\ path \in tracker.started_paths
                        /\ tracker' = tracker
              /\ (tracker.unstarted_paths = {} /\ tracker.started_paths = {})
                     => /\ path = <<>>
                        /\ tracker' = tracker]_vars

\* C20 happens: a started path was handed out again while another worker
\* still held it
C20_Witness ==
    /\ returned.call = "get_path_for_volunteer"
    /\ tracker.unstarted_paths = {}
    /\ \A w \in Workers : holding[w] = returned.value
    /\ returned.value \in tracker.started_paths

----------------------------------------------------------------------------
(* Properties of the accumulator, checked under Spec *)

\* C19: every count in the coordinator's word_counts is a non-negative
\* integer, whatever reports were deserialized from the connections.
C19_CountsNonNegative ==
    \A i \in 1..Len(work_tracker.word_counts) :
        work_tracker.word_counts[i][2] >= 0

----------------------------------------------------------------------------
(* volunteer.py: Volunteer, and the processes run together *)

\* what do_work returns for a play: the most frequent words of more than
\* five characters, by descending count
DoWorkResults == {<<<<juliet, 18>>>>}

\* the volunteer of a connection (0: the client is not a Volunteer)
client_of(connection) ==
    IF "client" \in DOMAIN connection THEN connection.client ELSE 0

\* Volunteer.connect followed by sock.send(request): the connection waits to
\* be accepted, or connect() returned None (ConnectionRefusedError: nothing
\* listens on the port) and the caller returns None to the loop, which breaks
send(v, request, waiting) ==
    IF server_socket = "listening"
    THEN /\ Len(backlog) < MaxBacklog
         /\ backlog' = Append(backlog, [data |-> serialize(request), client |-> v])
         /\ inbox' = [inbox EXCEPT ![v] = None]
         /\ volunteer' = [volunteer EXCEPT ![v].pc = waiting]
    ELSE /\ volunteer' = [volunteer EXCEPT ![v].pc = "returned"]
         /\ UNCHANGED <<backlog, inbox>>

\* Message.deserialize(response_file) on what the connection delivered
recv(v) == deserialize(makefile(inbox[v].data)).val

\* the loop's test of get_work's return value, with the test of the message
\* left out: any answer is taken as work
after_get_work_without_break(work) == "do_work"

\* the loop's test of get_work's return value: where the thread goes next
after_get_work(work) ==
    IF work.type # "GetWorkResponse" THEN "returned"
    ELSE IF work.host = <<>> \/ work.path = <<>> THEN "returned"
    ELSE "do_work"

\* threading.Thread(target=volunteer.keep_working_until_done).start()
keep_working_until_done(v) ==
    /\ volunteer[v].pc = "constructed"
    /\ volunteer' = [volunteer EXCEPT ![v].pc = "get_work"]
    /\ UNCHANGED <<inbox, coordinatorVars, codecVars, trackerVars>>

\* get_work up to the send
get_work(v) ==
    /\ volunteer[v].pc = "get_work"
    /\ send(v, GetWorkRequest, "get_work_recv")
    /\ UNCHANGED <<work_tracker, server_socket, pc, conn, output, accepted, acked>>
    /\ UNCHANGED <<codecVars, trackerVars>>

\* get_work from the deserialize on: a ValueError is not caught and ends the
\* thread; otherwise the loop tests the response
get_work_return(v) ==
    /\ volunteer[v].pc = "get_work_recv"
    /\ inbox[v] # None
    /\ volunteer' =
           IF recv(v).type = "ValueError"
           THEN [volunteer EXCEPT ![v].pc = "raised"]
           ELSE [volunteer EXCEPT ![v].work = recv(v),
                                  ![v].pc = after_get_work(recv(v))]
    /\ UNCHANGED <<inbox, coordinatorVars, codecVars, trackerVars>>

\* do_work: download the play and count its words
do_work(v) ==
    /\ volunteer[v].pc = "do_work"
    /\ \E result \in DoWorkResults :
           volunteer' = [volunteer EXCEPT ![v].result = result,
                                          ![v].pc = "report_work"]
    /\ UNCHANGED <<inbox, coordinatorVars, codecVars, trackerVars>>

\* report_work up to the send
report_work(v) ==
    /\ volunteer[v].pc = "report_work"
    /\ send(v, WorkCompleteRequest(volunteer[v].work.path, volunteer[v].result),
            "report_work_recv")
    /\ UNCHANGED <<work_tracker, server_socket, pc, conn, output, accepted, acked>>
    /\ UNCHANGED <<codecVars, trackerVars>>

\* report_work from the deserialize on: any message object is true, so the
\* loop goes round again; a ValueError is not caught and ends the thread
report_work_return(v) ==
    /\ volunteer[v].pc = "report_work_recv"
    /\ inbox[v] # None
    /\ volunteer' =
           IF recv(v).type = "ValueError"
           THEN [volunteer EXCEPT ![v].pc = "raised"]
           ELSE [volunteer EXCEPT
                    ![v].pc = "get_work",
                    \* history: the paths whose report was acknowledged
                    ![v].reported =
                        IF recv(v).type = "WorkCompleteResponse"
                        THEN @ \cup {volunteer[v].work.path}
                        ELSE @]
    /\ UNCHANGED <<inbox, coordinatorVars, codecVars, trackerVars>>

\* The exception that left accept_connections_until_all_work_done ends the
\* coordinator's thread or process: its sockets are released, and every
\* connection still waiting to be accepted is closed with nothing sent on it
Unwind ==
    /\ pc = "Raised"
    /\ pc' = "Exited"
    /\ server_socket' = "closed"
    /\ backlog' = <<>>
    /\ inbox' = [v \in Volunteers |->
                    IF \E i \in 1..Len(backlog) : client_of(backlog[i]) = v
                    THEN [data |-> <<>>]
                    ELSE inbox[v]]
    /\ UNCHANGED <<work_tracker, conn, output, accepted, acked, volunteer>>
    /\ UNCHANGED <<codecVars, trackerVars>>

\* a client that is no Volunteer connects and sends text that is no message
StrayConnect ==
    /\ server_socket = "listening"
    /\ Len(backlog) < MaxBacklog
    /\ backlog' = Append(backlog, [data |-> BogusMsg])
    /\ UNCHANGED <<work_tracker, server_socket, pc, conn, output, accepted, acked>>
    /\ UNCHANGED <<codecVars, trackerVars, volunteerVars>>

VolunteerNext ==
    \/ start \/ StrayConnect \/ Serve \/ AcceptTimeout \/ Unwind
    \/ \E v \in Volunteers : keep_working_until_done(v)
    \/ \E v \in Volunteers : get_work(v)
    \/ \E v \in Volunteers : get_work_return(v)
    \/ \E v \in Volunteers : do_work(v)
    \/ \E v \in Volunteers : report_work(v)
    \/ \E v \in Volunteers : report_work_return(v)

VolunteerSpec == Init /\ [][VolunteerNext]_vars

----------------------------------------------------------------------------
(* Properties of the volunteers, checked under VolunteerSpec *)

\* keep_working_until_done is over: it returned, or an exception ended it
Stopped(v) == volunteer[v].pc \in {"returned", "raised"}

StoppedNext(v) == volunteer'[v].pc \in {"returned", "raised"}

\* a GetWorkResponse that names no work
NoWork(m) == m.type = "GetWorkResponse" /\ (m.host = <<>> \/ m.path = <<>>)

\* the step is v's: get_work or report_work found the connection refused
Refused(v) ==
    /\ volunteer[v].pc \in {"get_work", "report_work"}
    /\ volunteer'[v] # volunteer[v]
    /\ server_socket # "listening"

\* the step is v's: it read how its request was answered
Answered(v) ==
    /\ volunteer[v].pc \in {"get_work_recv", "report_work_recv"}
    /\ volunteer'[v] # volunteer[v]

\* C11: once all work is done and the volunteers have stopped, the
\* coordinator goes on to leave its loop, close the listening socket and
\* stop.  Only the accept loop leads there, so in every such state the
\* coordinator is in the loop, one bounded accept wait from the end, or has
\* stopped with the socket closed.
C11_ShutdownAfterCompletion ==
    (is_all_work_done(work_tracker) /\ \A v \in Volunteers : Stopped(v))
        => \/ pc = "Listening" /\ server_socket = "listening"
           \/ pc = "Stopped" /\ server_socket = "closed"

\* C16: a refused connect, and a connection closed by the coordinator with
\* nothing sent on it, both reach the loop as None: no exception ends a
\* volunteer's thread.
C16_TransportFailureIsNone ==
    \A v \in Volunteers : volunteer[v].pc # "raised"

\* C17: after a report_work that fails, or a get_work that fails or is
\* answered with no work, the volunteer's loop is over; a volunteer whose
\* loop is over takes no step and has no connection made for it.
C17_NoRetryAfterFailure ==
    [][\A v \in Volunteers :
          /\ Refused(v) => StoppedNext(v)
          /\ (Answered(v) /\ recv(v).type = "ValueError") => StoppedNext(v)
          /\ (Answered(v) /\ volunteer[v].pc = "get_work_recv" /\ NoWork(recv(v)))
                 => StoppedNext(v)
          /\ Stopped(v)
                 => /\ volunteer'[v] = volunteer[v]
                    /\ \A i \in 1..Len(backlog') : client_of(backlog'[i]) # v]_vars

\* C17 happens: a volunteer that was given a path found the coordinator's
\* port closed when it came to report, and its loop ended
C17_Witness ==
    \E v \in Volunteers :
        /\ volunteer[v].pc = "returned"
        /\ inbox[v] # None
        /\ ResponseOf(inbox[v].data).type = "GetWorkResponse"
        /\ ~NoWork(ResponseOf(inbox[v].data))
        /\ volunteer[v].result # <<>>

----------------------------------------------------------------------------
(* Properties of the paths' progress, checked under Spec *)

\* how far a path has come in a tracker: 0 unstarted, 1 started, 2 finished
\* (a path in none of the sets counts as unstarted)
Progress(self, path) ==
    IF path \in self.finished_paths THEN 2
    ELSE IF path \in self.started_paths THEN 1
    ELSE 0

\* C21: a path's status only moves forward, one stage at a time: in every
\* step of the coordinator each path stays where it is, goes from unstarted
\* to started, or goes from started to finished.
C21_PathStatusMovesForward ==
    [][\A path \in JobUniverse \cup {ForeignPath} :
          \/ Progress(work_tracker', path) = Progress(work_tracker, path)
          \/ Progress(work_tracker', path) = Progress(work_tracker, path) + 1]_vars

\* C21 happens: one path has gone all the way to finished while the other
\* one is started
C21_Witness ==
    /\ Cardinality(work_tracker.finished_paths) = 1
    /\ Cardinality(work_tracker.started_paths) = Len(play_ids) - 1
    /\ work_tracker.unstarted_paths = {}
    /\ DOMAIN accepted = work_tracker.finished_paths

\* C22: connections are handled one at a time and each is closed after its
\* one exchange: whatever the request was, a loop iteration that goes on to
\* the next accept has reached connection_socket.close() first, so no
\* connection is open on the server side while the next one is accepted.
C22_ConnectionClosedAfterExchange ==
    [][(Handled /\ pc' = "Listening") => conn'.closed]_vars

\* C23: a report handed to process_result with a path that is neither
\* started nor finished fails and leaves the tracker as it was: the same
\* word_counts and the same three sets.
C23_FailedReportChangesNothing ==
    [][(/\ Handled
        /\ HandledRequest.type = "WorkCompleteRequest"
        /\ HandledRequest.path \notin work_tracker.started_paths
                                       \cup work_tracker.finished_paths)
           => work_tracker' = work_tracker]_vars

\* C25: once all work is done it stays done, and no request handled from
\* then on changes word_counts or any of the three sets, so what is printed
\* at shutdown is what was accumulated when the last path was finished.
C25_CompletionIsStable ==
    [][is_all_work_done(work_tracker)
           => /\ work_tracker' = work_tracker
              /\ output' # <<>> => output' = <<get_word_counts_desc(work_tracker)>>]_vars

----------------------------------------------------------------------------
(* Properties of a volunteer's rounds, checked under VolunteerSpec *)

\* v has been given a path and has not been answered on its report yet
Working(v) == volunteer[v].pc \in {"do_work", "report_work", "report_work_recv"}

====
